---- MODULE Spec2Model ----
(***************************************************************************)
(* Model of the queue-draining email processor: EmailProcessor            *)
(* (src/src/processor.ts), the QueueClient calls it makes                  *)
(* (src/unnamed/part_004) and the EmailService it delivers through         *)
(* (src/unnamed/part_002).  The queue store and the delivery provider are  *)
(* the environment: every awaited call either succeeds or fails.           *)
(***************************************************************************)
EXTENDS Integers, Sequences, FiniteSets, TLC

(* ---------------------------- bounds ---------------------------------- *)
NumMsgs == 2
MaxMaxRetries == 1
MaxInvocations == 3
\* the limits tried reach this far below 0 and above the provider maximum
MaxLimitExcess == 2
MaxTowers == 3

(* ------------------------ program constants --------------------------- *)
maxBatchSize == 10
ProviderMaxLimit == 100
ExpirationLimit == 365

Ids == 1..NumMsgs
Procs == {"scheduled", "manual"}

Null == "<null>"
Stamp == "<timestamp>"
Created == "<created>"

(* error descriptions the collaborators raise *)
\* sendEmail throws "Resend API error: ..." or "No email ID returned from
\* Resend"; the processor only reads error.message, so one description stands
\* for both throw sites
SendErrors == {"Resend API error"}
MarkSentError == "Failed to mark email as sent"
MarkFailedError == "Failed to mark email as failed"
FetchErrors == {"Failed to fetch pending emails", "fetch failed"}

VARIABLES
  queue,        \* the queue store: id -> stored EmailQueueItem
  pc,           \* per invocation: the await it is suspended at
  emails,       \* per invocation: the list getPendingEmails returned
  i,            \* per invocation: loop index (1-based)
  result,       \* per invocation: the PollResult being aggregated
  errorMessage, \* per invocation: errorMessage of the catch block
  thrown,       \* per invocation: the error processPendingEmails threw
  calls,        \* per invocation: the collaborator calls made, in order
  invocations,  \* number of processPendingEmails invocations started
  audited,      \* history: the messages whose delivery attempts are counted
  attempts,     \* history, per audited message: sendEmail calls made for it
  lost,         \* history, per audited message: attempts whose markAsFailed
                \* update was rejected
  delivered,    \* history, per audited message: sendEmail calls that resolved
  client,       \* the fields of the QueueClient object
  clientCall,   \* the QueueClient or EmailService call a route handler awaits
  network,      \* the outbound requests that call has issued, in order
  env,          \* the Worker's bindings (Env)
  http,         \* the request a protected route is serving, with the
                \* handler's locals and its response
  cron          \* the scheduled event being handled, with its outcome

\* what a processPendingEmails step leaves alone: the client object is never
\* written after construction, clientCall and network belong to the route
\* handlers, like the request and the scheduled event themselves; the
\* bindings never change
clientVars == <<client, clientCall, network, env, http, cron>>

vars == <<queue, pc, emails, i, result, errorMessage, thrown, calls, invocations,
          audited, attempts, lost, delivered, client, clientCall, network,
          env, http, cron>>

(* ------------------------------ helpers ------------------------------- *)
Min(a, b) == IF a < b THEN a ELSE b

Range(s) == {s[k] : k \in DOMAIN s}

\* what an awaited call or a function call ends with
Throw(e) == [threw |-> TRUE, error |-> e, value |-> Null]

Return(v) == [threw |-> FALSE, error |-> Null, value |-> v]

\* Number.prototype.toString of an integer: "-" when negative, then the
\* decimal digits, most significant first
RECURSIVE Digits(_)
Digits(n) == IF n < 10 THEN <<n>> ELSE Append(Digits(n \div 10), n % 10)

NumberToString(n) ==
  [sign |-> IF n < 0 THEN "-" ELSE "", digits |-> Digits(IF n < 0 THEN 0 - n ELSE n)]

\* sequences without repetition over the set S, of length at most n
RECURSIVE DistinctSeqs(_, _)
DistinctSeqs(S, n) ==
  IF n <= 0 \/ S = {} THEN {<<>>}
  ELSE {<<>>} \cup
       UNION {{<<x>> \o t : t \in DistinctSeqs(S \ {x}, n - 1)} : x \in S}

Call(op, id, ok, err) == [op |-> op, id |-> id, ok |-> ok, err |-> err]

(* ------------------------------ types.ts ------------------------------ *)
\* a queue item as queueEmail creates it: pending, no attempt made yet.  The
\* request carries recipient, subject and bodies only, so max_retries is the
\* store's default m, the same for every item.
NewItem(m) ==
  [recipient_email |-> "<recipient>", subject |-> "<subject>", body |-> "<body>",
   status |-> "pending", retry_count |-> 0, max_retries |-> m,
   last_error |-> Null, sent_at |-> Null, updated_at |-> Created]

InitResultStale == [processed |-> 1, failed |-> 0, errors |-> <<>>]

InitResult == [processed |-> 0, failed |-> 0, errors |-> <<>>]

(* ------------------------------ index.ts ------------------------------ *)
JwtToken == "<jwt>"
ClerkToken == "<clerk>"

\* the MailerConfig values a QueueClient may be constructed with: each
\* credential and the API key are set or undefined
MailerConfigs ==
  [authMethod : {"jwt", "clerk"},
   apiJwtToken : {Null, JwtToken},
   clerkRefreshToken : {Null, ClerkToken},
   apiKey : {Null, "<key>"}]

\* getConfig with AUTH_METHOD, CLERK_REFRESH_TOKEN and API_KEY unset and
\* API_JWT_TOKEN set: the configuration the triggers run with
DeployedConfig ==
  [authMethod |-> "jwt", apiJwtToken |-> JwtToken,
   clerkRefreshToken |-> Null, apiKey |-> Null]

\* the bindings the Worker may run with: each is set or undefined, and
\* AUTH_METHOD may hold a value that names no method
Envs ==
  [AUTH_METHOD : {Null, "clerk", "basic"},
   API_JWT_TOKEN : {Null, JwtToken},
   CLERK_SECRET_KEY : {Null, "<clerk-secret>"},
   CLERK_REFRESH_TOKEN : {Null, ClerkToken},
   API_KEY : {Null}]

\* the bindings DeployedConfig is read from
DeployedEnv ==
  [AUTH_METHOD |-> Null, API_JWT_TOKEN |-> JwtToken, CLERK_SECRET_KEY |-> Null,
   CLERK_REFRESH_TOKEN |-> Null, API_KEY |-> Null]

\* the bindings a MailerConfig was read from
EnvFor(config) ==
  [AUTH_METHOD |-> config.authMethod, API_JWT_TOKEN |-> config.apiJwtToken,
   CLERK_SECRET_KEY |-> Null, CLERK_REFRESH_TOKEN |-> config.clerkRefreshToken,
   API_KEY |-> config.apiKey]

\* !value for a binding: undefined and the empty string are falsy
Falsy(value) == value \in {Null, ""}

\* env.AUTH_METHOD || "jwt"
AuthMethodOf(e) == IF Falsy(e.AUTH_METHOD) THEN "jwt" ELSE e.AUTH_METHOD

\* the record getConfig returns (the fields QueueClient reads)
ConfigOf(e) ==
  [authMethod |-> AuthMethodOf(e), apiJwtToken |-> e.API_JWT_TOKEN,
   clerkRefreshToken |-> e.CLERK_REFRESH_TOKEN, apiKey |-> e.API_KEY]

\* getConfig: throws when the credential of the configured method is not set
GetConfig(e) ==
  IF AuthMethodOf(e) = "clerk" /\ Falsy(e.CLERK_REFRESH_TOKEN)
    THEN Throw("AUTH_METHOD is set to clerk but CLERK_REFRESH_TOKEN is not configured")
  ELSE IF AuthMethodOf(e) = "jwt" /\ Falsy(e.API_JWT_TOKEN)
    THEN Throw("AUTH_METHOD is set to jwt but API_JWT_TOKEN is not configured")
  ELSE Return(ConfigOf(e))

(* ---------------------------- QueueClient ----------------------------- *)
\* constructor: only the token of the configured method is kept
NewQueueClient(config) ==
  [authMethod |-> config.authMethod,
   apiKey |-> config.apiKey,
   clerkRefreshToken |->
     IF config.authMethod = "clerk" THEN config.clerkRefreshToken ELSE Null,
   authToken |->
     IF config.authMethod = "clerk" THEN Null ELSE config.apiJwtToken]

\* the template string `Bearer ${token}`
Bearer(token) == IF token = ClerkToken THEN "Bearer <clerk>" ELSE "Bearer <jwt>"

GetAuthHeaderUnchecked(c) ==
  IF c.authMethod = "clerk" THEN Return(Bearer(c.clerkRefreshToken))
                            ELSE Return(Bearer(c.authToken))

\* getAuthHeader: throws when the token of the configured method is not set
GetAuthHeader(c) ==
  IF c.authMethod = "clerk"
    THEN IF c.clerkRefreshToken = Null
           THEN Throw("Clerk refresh token not configured")
           ELSE Return(Bearer(c.clerkRefreshToken))
    ELSE IF c.authToken = Null
           THEN Throw("JWT token not configured")
           ELSE Return(Bearer(c.authToken))

RequestedLimitUnclamped(limit) == limit

\* getPendingEmails: the limit put in the request
RequestedLimit(limit) == Min(limit, ProviderMaxLimit)

\* getPendingEmails: the lists GET /api/email-queue/pending/list may answer
PendingLists(q, limit) ==
  {[k \in DOMAIN s |-> [id |-> s[k]] @@ q[s[k]]] :
     s \in DistinctSeqs({id \in Ids : q[id].status = "pending"},
                        Min(RequestedLimit(limit), NumMsgs))}

\* getPendingEmails returns result.data unchecked: the answer of a store that
\* ignores the status filter and the limit is every row, in id order
UnfilteredList(q) == [k \in 1..NumMsgs |-> [id |-> k] @@ q[k]]

\* PUT /api/email-queue/:id : the store overwrites the fields of the body
Put(q, id, body) ==
  [q EXCEPT ![id] = [f \in DOMAIN q[id] |->
                       IF f \in DOMAIN body THEN body[f] ELSE q[id][f]]]

MarkAsSentBodyStillPending ==
  [status |-> "pending", sent_at |-> Stamp, last_error |-> Null]

MarkAsSentBodyResetRetries ==
  [status |-> "sent", sent_at |-> Stamp, last_error |-> Null, retry_count |-> 0]

MarkAsSentBodyKeepError == [status |-> "sent", sent_at |-> Stamp]

MarkAsSentBody ==
  [status |-> "sent", sent_at |-> Stamp, last_error |-> Null]

ShouldRetryInclusive(retryCount, maxRetries) == retryCount <= maxRetries

ShouldRetryAlways(retryCount, maxRetries) == TRUE

ShouldRetry(retryCount, maxRetries) == retryCount < maxRetries

NextRetryCountSame(retryCount) == retryCount

NextRetryCountDown(retryCount) == retryCount - 1

NextRetryCount(retryCount) == retryCount + 1

MarkAsFailedBody(message, retryCount, maxRetries) ==
  [status |-> IF ShouldRetry(retryCount, maxRetries) THEN "pending" ELSE "failed",
   retry_count |-> NextRetryCount(retryCount),
   last_error |-> message,
   updated_at |-> Stamp]

(* --------------------------- EmailProcessor --------------------------- *)
RethrowWrapped(error) == "Error in processPendingEmails"

\* catch (error) { throw error; } of processPendingEmails
Rethrow(error) == error

RecordFailureNoCount(res, emailId, message) ==
  [res EXCEPT !.errors = Append(@, [emailId |-> emailId, error |-> message])]

RecordFailureFirst(res, emailId, message) ==
  [res EXCEPT !.failed = @ + 1,
              !.errors = <<[emailId |-> emailId, error |-> message]>> \o @]

\* catch block of processEmail: result.failed++, result.errors.push(...)
RecordFailure(res, emailId, message) ==
  [res EXCEPT !.failed = @ + 1,
              !.errors = Append(@, [emailId |-> emailId, error |-> message])]

\* try block of processEmail after markAsSent: result.processed++
RecordProcessed(res) == [res EXCEPT !.processed = @ + 1]

DelayNeededAlways(idx, n) == idx <= n

\* "if (i < emails.length - 1)" with the 1-based index of the model
DelayNeeded(idx, n) == idx < n

LoopContinuesShort(idx, n) == idx < n

\* "i < emails.length" of the for loop, with the 1-based index of the model
LoopContinues(idx, n) == idx <= n

Email(p) == emails[p][i[p]]

\* history: one more event counted for message id, when it is audited
Count(counter, id) ==
  IF id \in audited THEN [counter EXCEPT ![id] = @ + 1] ELSE counter

\* no route handler awaits a client call
IdleCall == [name |-> "none", pc |-> "idle"]

\* a request without Authorization header
NoHeader == [prefix |-> Null, rest |-> Null]

\* no request is being served
IdleRequest ==
  [pc |-> "idle", route |-> Null, header |-> NoHeader, verified |-> FALSE,
   status |-> 0, body |-> Null]

\* no scheduled event is being handled
IdleCron == [pc |-> "idle", outcome |-> Null]

\* no invocation has started yet
InitControl ==
  /\ pc = [p \in Procs |-> "idle"]
  /\ emails = [p \in Procs |-> <<>>]
  /\ i = [p \in Procs |-> 0]
  /\ result = [p \in Procs |-> InitResult]
  /\ errorMessage = [p \in Procs |-> Null]
  /\ thrown = [p \in Procs |-> Null]
  /\ calls = [p \in Procs |-> <<>>]
  /\ invocations = 0
  /\ attempts = [id \in Ids |-> 0]
  /\ lost = [id \in Ids |-> 0]
  /\ delivered = [id \in Ids |-> 0]
  /\ clientCall = IdleCall
  /\ network = <<>>
  /\ http = IdleRequest
  /\ cron = IdleCron

\* every message is newly queued
InitProgram ==
  /\ \E m \in 0..MaxMaxRetries : queue = [id \in Ids |-> NewItem(m)]
  /\ env = DeployedEnv
  /\ client = NewQueueClient(DeployedConfig)
  /\ InitControl

Init == InitProgram /\ audited = {}

\* the same program with the attempts of message 1 counted
InitAudit == InitProgram /\ audited = {1}

\* processPendingEmails is called: result is initialised, the fetch is awaited
Invoke(p) ==
  /\ pc[p] = "idle"
  /\ invocations < MaxInvocations
  /\ invocations' = invocations + 1
  /\ pc' = [pc EXCEPT ![p] = "getPendingEmails"]
  /\ result' = [result EXCEPT ![p] = InitResult]
  /\ UNCHANGED <<queue, emails, i, errorMessage, thrown, calls, audited, delivered,
                 clientVars, attempts, lost>>

StoreAfterFetchLeased(q, list) ==
  [id \in Ids |->
     IF \E k \in DOMAIN list : list[k].id = id
       THEN [q[id] EXCEPT !.status = "processing"]
       ELSE q[id]]

\* getPendingEmails is a GET of the pending rows: it writes nothing to the
\* store, so a listed message stays pending until markAsSent or markAsFailed
StoreAfterFetch(q, list) == q

\* getPendingEmails resolved with list: an empty list returns at once, else
\* the loop starts
Receive(p, list) ==
  /\ queue' = StoreAfterFetch(queue, list)
  /\ emails' = [emails EXCEPT ![p] = list]
  /\ calls' = [calls EXCEPT ![p] = Append(@, Call("getPendingEmails", 0, TRUE, Null))]
  /\ IF Len(list) = 0
       THEN /\ pc' = [pc EXCEPT ![p] = "returned"]
            /\ i' = i
       ELSE /\ pc' = [pc EXCEPT ![p] =
                        IF LoopContinues(1, Len(list)) THEN "sendEmail"
                                                       ELSE "returned"]
            /\ i' = [i EXCEPT ![p] = 1]
  /\ UNCHANGED <<result, errorMessage, thrown, invocations, audited, delivered,
                 clientVars, attempts, lost>>

\* getPendingEmails resolves with pending messages, at most the limit
FetchOk(p) ==
  /\ pc[p] = "getPendingEmails"
  /\ ~GetAuthHeader(client).threw
  /\ \E list \in PendingLists(queue, maxBatchSize) : Receive(p, list)

\* getPendingEmails resolves with a list the store did not filter
FetchUnfiltered(p) ==
  /\ pc[p] = "getPendingEmails"
  /\ ~GetAuthHeader(client).threw
  /\ UnfilteredList(queue) \notin PendingLists(queue, maxBatchSize)
  /\ Receive(p, UnfilteredList(queue))

\* the errors getPendingEmails rejects with: getAuthHeader's before any
\* request is made, else a non-OK response or a failed fetch
FetchRejections(c) ==
  IF GetAuthHeader(c).threw THEN {GetAuthHeader(c).error} ELSE FetchErrors

\* getPendingEmails rejects: the outer catch logs and rethrows
FetchFail(p) ==
  /\ pc[p] = "getPendingEmails"
  /\ \E e \in FetchRejections(client) :
       /\ calls' = [calls EXCEPT ![p] = Append(@, Call("getPendingEmails", 0, FALSE, e))]
       /\ thrown' = [thrown EXCEPT ![p] = Rethrow(e)]
  /\ pc' = [pc EXCEPT ![p] = "thrown"]
  /\ UNCHANGED <<queue, emails, i, result, errorMessage, invocations, audited, delivered,
                 clientVars, attempts, lost>>

\* processEmail has returned: sleep before the next email or return the result
\* i++ and the loop test: the next email is sent or the result is returned
Advance(p) ==
  /\ i' = [i EXCEPT ![p] = @ + 1]
  /\ pc' = [pc EXCEPT ![p] =
              IF LoopContinues(i[p] + 1, Len(emails[p])) THEN "sendEmail"
                                                         ELSE "returned"]

AfterProcessEmail(p) ==
  IF DelayNeeded(i[p], Len(emails[p]))
    THEN /\ pc' = [pc EXCEPT ![p] = "sleep"]
         /\ i' = i
    ELSE Advance(p)

PropagateUpdateError(p) ==
  /\ pc' = [pc EXCEPT ![p] = "thrown"]
  /\ i' = i

AbandonBatch(p) ==
  /\ pc' = [pc EXCEPT ![p] = "returned"]
  /\ i' = i

\* catch (updateError) of processEmail: logged only, processEmail returns
SwallowUpdateError(p) == AfterProcessEmail(p)

\* markAsSent issued without await: processEmail goes on at once
SendOkNoAwait(p) ==
  /\ pc[p] = "sendEmail"
  /\ calls' = [calls EXCEPT ![p] = Append(@, Call("sendEmail", Email(p).id, TRUE, Null))]
  /\ result' = [result EXCEPT ![p] = RecordProcessed(@)]
  /\ AfterProcessEmail(p)
  /\ attempts' = Count(attempts, Email(p).id)
  /\ delivered' = Count(delivered, Email(p).id)
  /\ UNCHANGED <<queue, emails, errorMessage, thrown, invocations, audited, clientVars, lost>>

\* emailService.sendEmail resolves: markAsSent is awaited next
SendOk(p) ==
  /\ pc[p] = "sendEmail"
  /\ calls' = [calls EXCEPT ![p] = Append(@, Call("sendEmail", Email(p).id, TRUE, Null))]
  /\ pc' = [pc EXCEPT ![p] = "markAsSent"]
  /\ attempts' = Count(attempts, Email(p).id)
  /\ delivered' = Count(delivered, Email(p).id)
  /\ UNCHANGED <<queue, emails, i, result, errorMessage, thrown, invocations, audited,
                 clientVars, lost>>

\* emailService.sendEmail rejects: catch block, markAsFailed is awaited next
SendFail(p) ==
  /\ pc[p] = "sendEmail"
  /\ \E e \in SendErrors :
       /\ calls' = [calls EXCEPT ![p] = Append(@, Call("sendEmail", Email(p).id, FALSE, e))]
       /\ result' = [result EXCEPT ![p] = RecordFailure(@, Email(p).id, e)]
       /\ errorMessage' = [errorMessage EXCEPT ![p] = e]
  /\ pc' = [pc EXCEPT ![p] = "markAsFailed"]
  /\ attempts' = Count(attempts, Email(p).id)
  /\ UNCHANGED <<queue, emails, i, thrown, invocations, audited, delivered, clientVars, lost>>

\* markAsSent resolves: the store is updated, result.processed++
MarkSentOk(p) ==
  /\ pc[p] = "markAsSent"
  /\ ~GetAuthHeader(client).threw
  /\ queue' = Put(queue, Email(p).id, MarkAsSentBody)
  /\ calls' = [calls EXCEPT ![p] = Append(@, Call("markAsSent", Email(p).id, TRUE, Null))]
  /\ result' = [result EXCEPT ![p] = RecordProcessed(@)]
  /\ AfterProcessEmail(p)
  /\ UNCHANGED <<emails, errorMessage, thrown, invocations, audited, delivered,
                 clientVars, attempts, lost>>

\* markAsSent rejects: the same catch block as a failed send
MarkSentFail(p) ==
  /\ pc[p] = "markAsSent"
  /\ calls' = [calls EXCEPT ![p] =
                 Append(@, Call("markAsSent", Email(p).id, FALSE, MarkSentError))]
  /\ result' = [result EXCEPT ![p] = RecordFailure(@, Email(p).id, MarkSentError)]
  /\ errorMessage' = [errorMessage EXCEPT ![p] = MarkSentError]
  /\ pc' = [pc EXCEPT ![p] = "markAsFailed"]
  /\ UNCHANGED <<queue, emails, i, thrown, invocations, audited, delivered, clientVars,
                 attempts, lost>>

\* markAsFailed resolves: the store is updated from the fetched counters
MarkFailedOk(p) ==
  /\ pc[p] = "markAsFailed"
  /\ ~GetAuthHeader(client).threw
  /\ queue' = Put(queue, Email(p).id,
                  MarkAsFailedBody(errorMessage[p], Email(p).retry_count,
                                   Email(p).max_retries))
  /\ calls' = [calls EXCEPT ![p] = Append(@, Call("markAsFailed", Email(p).id, TRUE, Null))]
  /\ AfterProcessEmail(p)
  /\ UNCHANGED <<emails, result, errorMessage, thrown, invocations, audited, delivered,
                 clientVars, attempts, lost>>

\* markAsFailed rejects: the inner catch logs, processEmail returns normally
MarkFailedFail(p) ==
  /\ pc[p] = "markAsFailed"
  /\ calls' = [calls EXCEPT ![p] =
                 Append(@, Call("markAsFailed", Email(p).id, FALSE, MarkFailedError))]
  /\ lost' = Count(lost, Email(p).id)
  /\ SwallowUpdateError(p)
  /\ UNCHANGED <<queue, emails, result, errorMessage, thrown, invocations, audited,
                 delivered, clientVars, attempts>>

\* the pacing sleep elapses: the loop moves to the next email
Sleep(p) ==
  /\ pc[p] = "sleep"
  /\ calls' = [calls EXCEPT ![p] = Append(@, Call("sleep", 0, TRUE, Null))]
  /\ Advance(p)
  /\ UNCHANGED <<queue, emails, result, errorMessage, thrown, invocations, audited,
                 delivered, clientVars, attempts, lost>>

\* the trigger has consumed the outcome; processor and clients are dropped
Finish(p) ==
  /\ pc[p] \in {"returned", "thrown"}
  /\ pc' = [pc EXCEPT ![p] = "idle"]
  /\ emails' = [emails EXCEPT ![p] = <<>>]
  /\ i' = [i EXCEPT ![p] = 0]
  /\ result' = [result EXCEPT ![p] = InitResult]
  /\ errorMessage' = [errorMessage EXCEPT ![p] = Null]
  /\ thrown' = [thrown EXCEPT ![p] = Null]
  /\ calls' = [calls EXCEPT ![p] = <<>>]
  /\ UNCHANGED <<queue, invocations, audited, delivered, clientVars, attempts, lost>>

(* ------------- QueueClient and EmailService calls, one by one ---------- *)
\* the limits getPendingEmails is called with
LimitInputs == (0 - MaxLimitExcess)..(ProviderMaxLimit + MaxLimitExcess)

Statuses == {"pending", "sent", "failed"}

\* a request to the queue store: every method sends the same headers
StoreRequest(method, path, query, header) ==
  [to |-> "store", method |-> method, path |-> path, query |-> query,
   authorization |-> header, apiKey |-> client.apiKey]

\* a call is followed while no batch runs and no other call is awaited
CallIdle ==
  /\ clientCall.pc = "idle"
  /\ \A p \in Procs : pc[p] = "idle"

\* the part of a QueueClient method up to its first await: getAuthHeader
\* throws into the catch block (logged, rethrown), else the requests go out
Start(call, requests) ==
  IF GetAuthHeader(client).threw
    THEN /\ clientCall' = call @@ [pc |-> "done",
                                    outcome |-> Throw(GetAuthHeader(client).error)]
         /\ network' = <<>>
    ELSE /\ clientCall' = call @@ [pc |-> "fetch"]
         /\ network' = requests

\* the call has settled
Settle(outcome) ==
  clientCall' = [clientCall EXCEPT !.pc = "done"] @@ [outcome |-> outcome]

nonStoreVars ==
  <<pc, emails, i, result, errorMessage, thrown, calls, invocations, audited,
    attempts, lost, delivered, client, env, http, cron>>

\* queueEmail(payload) is called
QueueEmail ==
  /\ CallIdle
  /\ Start([name |-> "queueEmail"],
           <<StoreRequest("POST", "/api/email-queue", Null,
                          GetAuthHeader(client).value)>>)
  /\ UNCHANGED <<queue, nonStoreVars>>

\* the store answers the POST: the new row gets an id outside Ids and is not
\* followed; a non-OK answer or a failed fetch is rethrown
QueueEmailResponds ==
  /\ clientCall.pc = "fetch" /\ clientCall.name = "queueEmail"
  /\ \E o \in {Return("result.data"), Throw("Failed to queue email"),
                 Throw("fetch failed")} : Settle(o)
  /\ UNCHANGED <<queue, network, nonStoreVars>>

\* getPendingEmails(limit) is called
GetPendingEmails(limit) ==
  /\ CallIdle
  /\ Start([name |-> "getPendingEmails", limit |-> limit],
           <<StoreRequest("GET", "/api/email-queue/pending/list",
                          [limit |-> NumberToString(RequestedLimit(limit))],
                          GetAuthHeader(client).value)>>)
  /\ UNCHANGED <<queue, nonStoreVars>>

\* the store answers the GET with at most the requested number of pending rows
GetPendingEmailsResponds ==
  /\ clientCall.pc = "fetch" /\ clientCall.name = "getPendingEmails"
  /\ \/ \E list \in PendingLists(queue, clientCall.limit) : Settle(Return(list))
     \/ \E e \in FetchErrors : Settle(Throw(e))
  /\ UNCHANGED <<queue, network, nonStoreVars>>

\* the messages an update call is made for: processEmail updates a message
\* it was given as pending
Updatable(q) == {id \in Ids : q[id].status = "pending"}

\* markAsSent(emailId, resendId) is called
MarkAsSent ==
  /\ CallIdle
  /\ \E id \in Updatable(queue) :
       Start([name |-> "markAsSent", id |-> id, body |-> MarkAsSentBody],
             <<StoreRequest("PUT", <<"/api/email-queue", id>>, Null,
                            GetAuthHeader(client).value)>>)
  /\ UNCHANGED <<queue, nonStoreVars>>

\* markAsFailed(emailId, errorMessage, retryCount, maxRetries) is called,
\* with the counters of the message as processEmail passes them
MarkAsFailed ==
  /\ CallIdle
  /\ \E id \in Updatable(queue), e \in SendErrors :
       Start([name |-> "markAsFailed", id |-> id,
              body |-> MarkAsFailedBody(e, queue[id].retry_count,
                                        queue[id].max_retries)],
             <<StoreRequest("PUT", <<"/api/email-queue", id>>, Null,
                            GetAuthHeader(client).value)>>)
  /\ UNCHANGED <<queue, nonStoreVars>>

\* the store answers the PUT: applied when OK, else the method rethrows
UpdateResponds ==
  /\ clientCall.pc = "fetch" /\ clientCall.name \in {"markAsSent", "markAsFailed"}
  /\ \/ /\ Settle(Return(Null))
        /\ queue' = Put(queue, clientCall.id, clientCall.body)
     \/ /\ Settle(Throw(IF clientCall.name = "markAsSent" THEN MarkSentError
                                                         ELSE MarkFailedError))
        /\ queue' = queue
     \/ /\ Settle(Throw("fetch failed"))
        /\ queue' = queue
  /\ UNCHANGED <<network, nonStoreVars>>

\* the request one countByStatus(status) call fetches
CountRequest(status, header) ==
  StoreRequest("GET", "/api/email-queue/", [status |-> status, limit |-> "1"],
               header)

\* getQueueStats() is called: Promise.all starts the three countByStatus
\* calls; each runs getAuthHeader before its fetch
GetQueueStats ==
  /\ CallIdle
  /\ Start([name |-> "getQueueStats", waiting |-> Statuses,
            counts |-> [st \in Statuses |-> 0], rejected |-> {}],
           <<CountRequest("pending", GetAuthHeader(client).value),
             CountRequest("sent", GetAuthHeader(client).value),
             CountRequest("failed", GetAuthHeader(client).value)>>)
  /\ UNCHANGED <<queue, nonStoreVars>>

\* the page the store answers a status listing with: at most limit rows of
\* that status
PageLength(q, status, limit) ==
  Min(Cardinality({id \in Ids : q[id].status = status}), limit)

CountByStatusResultOneOnError(ok, q, status) ==
  IF ok THEN PageLength(q, status, 1) ELSE 1

\* countByStatus after its fetch: 0 for a non-OK response, else the length
\* of the page ("result.data?.length || 0")
CountByStatusResult(ok, q, status) ==
  IF ok THEN PageLength(q, status, 1) ELSE 0

\* one countByStatus fetch settles (rejected holds the statuses whose request
\* the store answered non-OK); the last one completes Promise.all, a failed
\* fetch rejects it at once
CountResponds ==
  /\ clientCall.pc = "fetch" /\ clientCall.name = "getQueueStats"
  /\ \E st \in clientCall.waiting :
       \/ \E ok \in BOOLEAN :
            LET counts == [clientCall.counts EXCEPT
                             ![st] = CountByStatusResult(ok, queue, st)]
                rejected == IF ok THEN clientCall.rejected
                                  ELSE clientCall.rejected \cup {st}
            IN clientCall' =
                 IF clientCall.waiting = {st}
                   THEN [clientCall EXCEPT !.pc = "done", !.waiting = {},
                                           !.counts = counts,
                                           !.rejected = rejected]
                        @@ [outcome |-> Return(counts)]
                   ELSE [clientCall EXCEPT !.waiting = @ \ {st},
                                           !.counts = counts,
                                           !.rejected = rejected]
       \/ Settle(Throw("fetch failed"))
  /\ UNCHANGED <<queue, network, nonStoreVars>>

(* ----------------------------- EmailService --------------------------- *)
\* what resend.emails.send resolves with: data, an error, or neither
ProviderResponses ==
  {[data |-> "<id>", error |-> Null],
   [data |-> Null, error |-> "rejected"],
   [data |-> Null, error |-> Null]}

\* sendEmail after its await: the error, then the missing data, else the id
SendEmailResult(response) ==
  IF response.error # Null THEN Throw("Resend API error")
  ELSE IF response.data = Null THEN Throw("No email ID returned from Resend")
  ELSE Return(response.data)

\* sendEmail(email) is called: the payload goes to the provider
SendEmail ==
  /\ CallIdle
  /\ \E id \in Ids :
       /\ clientCall' = [name |-> "sendEmail", id |-> id, pc |-> "fetch"]
       /\ network' = <<[to |-> "provider", email |-> id]>>
  /\ UNCHANGED <<queue, nonStoreVars>>

RetryOnError(response) ==
  IF response.error # Null
    THEN Append(network, [to |-> "provider", email |-> clientCall.id])
    ELSE network

\* sendEmail makes no further call, whatever the provider answered
NoRetry(response) == network

\* resend.emails.send settles
ProviderResponds ==
  /\ clientCall.pc = "fetch" /\ clientCall.name = "sendEmail"
  /\ \/ \E response \in ProviderResponses :
          /\ clientCall' = [clientCall EXCEPT !.pc = "done"]
                           @@ [result |-> response,
                               outcome |-> SendEmailResult(response)]
          /\ network' = NoRetry(response)
     \/ /\ Settle(Throw("fetch failed"))
        /\ network' = network
  /\ UNCHANGED <<queue, nonStoreVars>>

\* the route handler has consumed the outcome
CallReturns ==
  /\ clientCall.pc = "done"
  /\ clientCall' = IdleCall
  /\ network' = <<>>
  /\ UNCHANGED <<queue, nonStoreVars>>

ClientStep ==
  \/ QueueEmail
  \/ QueueEmailResponds
  \/ GetPendingEmails(maxBatchSize)
  \/ GetPendingEmailsResponds
  \/ MarkAsSent
  \/ MarkAsFailed
  \/ UpdateResponds
  \/ GetQueueStats
  \/ CountResponds
  \/ SendEmail
  \/ ProviderResponds
  \/ CallReturns

\* a trigger fires while no other invocation is running
InvokeAlone(p) ==
  /\ \A q \in Procs : pc[q] = "idle"
  /\ Invoke(p)

\* the steps of an invocation other than the pacing sleep
StepUnpaced(p) ==
  \/ FetchOk(p)
  \/ FetchFail(p)
  \/ SendOk(p)
  \/ SendFail(p)
  \/ MarkSentOk(p)
  \/ MarkSentFail(p)
  \/ MarkFailedOk(p)
  \/ MarkFailedFail(p)
  \/ Finish(p)

Step(p) == StepUnpaced(p) \/ Sleep(p)

\* Invocations run one after another.  The processor and its clients are
\* built anew for every invocation and keep nothing between two of them, so
\* which trigger starts an invocation changes no step of it: the runs of the
\* cron trigger alone are the non-overlapping runs.
Next == InvokeAlone("scheduled") \/ Step("scheduled")

Spec == Init /\ [][Next]_vars

SpecAudit == InitAudit /\ [][Next]_vars

\* the same program with the attempts and deliveries of every message counted
InitAuditAll == InitProgram /\ audited = Ids

\* Invocations run one after another and the store accepts every update:
\* markAsSent and markAsFailed always resolve
NextReliableStore ==
  \/ InvokeAlone("scheduled")
  \/ FetchOk("scheduled")
  \/ FetchFail("scheduled")
  \/ SendOk("scheduled")
  \/ SendFail("scheduled")
  \/ MarkSentOk("scheduled")
  \/ MarkFailedOk("scheduled")
  \/ Sleep("scheduled")
  \/ Finish("scheduled")

SpecReliableStore == InitAuditAll /\ [][NextReliableStore]_vars

\* The trigger keeps firing (the cron schedule, or POST /process called again)
\* once the previous invocation has returned; the count of invocations stops
\* at MaxInvocations
InvokeAgain(p) ==
  /\ \A q \in Procs : pc[q] = "idle"
  /\ invocations' = IF invocations < MaxInvocations THEN invocations + 1
                                                   ELSE invocations
  /\ pc' = [pc EXCEPT ![p] = "getPendingEmails"]
  /\ result' = [result EXCEPT ![p] = InitResult]
  /\ UNCHANGED <<queue, emails, i, errorMessage, thrown, calls, audited, delivered,
                 clientVars, attempts, lost>>

\* getPendingEmails resolves with a list that holds message id
FetchIncluding(p, id) ==
  /\ pc[p] = "getPendingEmails"
  /\ ~GetAuthHeader(client).threw
  /\ \E list \in PendingLists(queue, maxBatchSize) :
       /\ \E k \in DOMAIN list : list[k].id = id
       /\ Receive(p, list)

\* Repeated invocations against collaborators whose fetch and updates always
\* resolve; sendEmail may still reject
NextRepeated ==
  \/ InvokeAgain("scheduled")
  \/ FetchOk("scheduled")
  \/ SendOk("scheduled")
  \/ SendFail("scheduled")
  \/ MarkSentOk("scheduled")
  \/ MarkFailedOk("scheduled")
  \/ Sleep("scheduled")
  \/ Finish("scheduled")

\* The trigger fires whenever the worker is idle and every await settles
\* (weak fairness of the steps); the store's list call, asked again and again
\* while a message is pending, eventually returns that message (strong
\* fairness of the fetch that includes it).
SpecRepeated ==
  /\ Init
  /\ [][NextRepeated]_vars
  /\ WF_vars(NextRepeated)
  /\ \A id \in Ids : SF_vars(FetchIncluding("scheduled", id))

\* the first trigger fires
InvokeFirst(p) ==
  /\ invocations = 0
  /\ InvokeAlone(p)

\* one invocation, from its trigger to the end
NextOneBatch == InvokeFirst("scheduled") \/ Step("scheduled")

\* Every await of the invocation settles (the collaborator call returns or
\* fails, the timer of sleep fires) and the continuation then runs: a step of
\* the invocation that stays possible is eventually taken.  Whether the
\* trigger fires at all is left open.
SpecOneBatch ==
  Init /\ [][NextOneBatch]_vars /\ WF_vars(Step("scheduled"))

\* Invocations may overlap: POST /process and the cron trigger each build
\* their own processor and nothing orders them.  The overlap is followed on
\* one pending message (InitOverlap): a batch then has at most one entry,
\* DelayNeeded(1, 1) is false and no invocation ever reaches the pacing sleep.
NextOverlap == \E p \in Procs : Invoke(p) \/ StepUnpaced(p)

\* the queue when the overlap starts: message 1 is pending, the messages
\* queued before it were delivered by earlier invocations
OneMessagePending ==
  \E m \in 0..MaxMaxRetries :
    queue = [id \in Ids |->
               IF id = 1 THEN NewItem(m)
                         ELSE Put([x \in {id} |-> NewItem(m)], id, MarkAsSentBody)[id]]

InitOverlap ==
  /\ InitControl
  /\ audited = {}
  /\ env = DeployedEnv
  /\ client = NewQueueClient(DeployedConfig)
  /\ OneMessagePending

SpecOverlap == InitOverlap /\ [][NextOverlap]_vars

\* Invocations run one after another against a store that may answer the
\* list call with messages of any status
NextAnyStore ==
  \/ InvokeAlone("scheduled")
  \/ FetchUnfiltered("scheduled")
  \/ Step("scheduled")

SpecAnyStore == InitOverlap /\ [][NextAnyStore]_vars

\* a QueueClient built from any MailerConfig; message 1 is pending
InitClient ==
  /\ InitControl
  /\ audited = {}
  /\ \E config \in MailerConfigs :
       /\ env = EnvFor(config)
       /\ client = NewQueueClient(config)
  /\ OneMessagePending

\* a trigger fires while no route handler awaits a client call
InvokeQuiet(p) ==
  /\ clientCall.pc = "idle"
  /\ InvokeAlone(p)

\* The client calls one at a time, and the batches between them
NextClient ==
  \/ InvokeQuiet("scheduled")
  \/ StepUnpaced("scheduled")
  \/ ClientStep

SpecClient == InitClient /\ [][NextClient]_vars

\* getPendingEmails alone, called with every limit of LimitInputs
NextLimit ==
  \/ \E limit \in LimitInputs : GetPendingEmails(limit)
  \/ GetPendingEmailsResponds
  \/ CallReturns

SpecLimit == InitOverlap /\ [][NextLimit]_vars

(* ------------------- index.ts: routes and scheduled event -------------- *)
Tokens == {JwtToken, "<other>"}

\* the Authorization header of a request: absent, or a scheme prefix followed
\* by a token
Headers == {NoHeader} \cup [prefix : {"Bearer ", "Basic "}, rest : Tokens]

\* authHeader && authHeader.startsWith("Bearer ")
StartsWithBearer(header) == header # NoHeader /\ header.prefix = "Bearer "

\* authHeader.substring(7)
TokenOf(header) == header.rest

Unauthorized(message) == [next |-> FALSE, status |-> 401, error |-> message]

NextHandler == [next |-> TRUE, status |-> 0, error |-> Null]

ClerkAuthAnyBearer(e, header, verified) ==
  IF StartsWithBearer(header) THEN NextHandler
  ELSE Unauthorized("Unauthorized: Missing or invalid Authorization header")

\* clerkAuth: answers 401 or calls next(); verified is what verifyToken
\* answers for the token
ClerkAuth(e, header, verified) ==
  IF ~StartsWithBearer(header)
    THEN Unauthorized("Unauthorized: Missing or invalid Authorization header")
  ELSE IF AuthMethodOf(e) = "clerk"
    THEN IF e.CLERK_SECRET_KEY # Null /\ ~verified
           THEN Unauthorized("Unauthorized: Invalid Clerk token")
           ELSE NextHandler
  ELSE IF AuthMethodOf(e) = "jwt"
    THEN IF TokenOf(header) # e.API_JWT_TOKEN
           THEN Unauthorized("Unauthorized: Invalid JWT token")
           ELSE NextHandler
  ELSE Unauthorized("Unauthorized: Invalid AUTH_METHOD configuration")

ProtectedRoutes == {"POST /process", "GET /stats"}

\* nothing is in progress: triggers are taken one at a time
Quiet ==
  /\ \A p \in Procs : pc[p] = "idle"
  /\ clientCall.pc = "idle"
  /\ http.pc = "idle"
  /\ cron.pc = "idle"

Respond(status, body) ==
  http' = [http EXCEPT !.pc = "responded", !.status = status, !.body = body]

routeFrame ==
  <<queue, pc, emails, i, result, errorMessage, thrown, calls, invocations,
    audited, attempts, lost, delivered, client, clientCall, network, env>>

\* a request for a protected route arrives
Request ==
  /\ Quiet
  /\ \E route \in ProtectedRoutes : \E header \in Headers :
       \E verified \in {FALSE, StartsWithBearer(header)} :
         http' = [pc |-> "auth", route |-> route, header |-> header,
                  verified |-> verified, status |-> 0, body |-> Null]
  /\ UNCHANGED <<routeFrame, cron>>

\* the clerkAuth middleware runs
Authenticate ==
  /\ http.pc = "auth"
  /\ LET auth == ClerkAuth(env, http.header, http.verified)
     IN IF auth.next
          THEN http' = [http EXCEPT !.pc = "handler"]
          ELSE Respond(auth.status, [error |-> auth.error])
  /\ UNCHANGED <<routeFrame, cron>>

FailureAsSuccess(message) == [success |-> TRUE, error |-> message]

\* the catch block of a route handler: 500 with success: false
Failure(message) == [success |-> FALSE, error |-> message]

\* getConfig throws inside the handler's try block
HandlerConfigFails ==
  /\ http.pc = "handler"
  /\ GetConfig(env).threw
  /\ Respond(500, Failure(GetConfig(env).error))
  /\ UNCHANGED <<routeFrame, cron>>

\* POST /process builds the clients and the processor and awaits
\* processPendingEmails
ProcessInvoke ==
  /\ http.pc = "handler" /\ http.route = "POST /process"
  /\ ~GetConfig(env).threw
  /\ Invoke("manual")

\* POST /process answers: 200 with the result, or 500 from its catch block
ProcessAnswers ==
  /\ http.pc = "handler" /\ http.route = "POST /process"
  /\ \/ /\ pc["manual"] = "returned"
        /\ Respond(200, [success |-> TRUE, result |-> result["manual"]])
     \/ /\ pc["manual"] = "thrown"
        /\ Respond(500, Failure(thrown["manual"]))
  /\ UNCHANGED <<routeFrame, cron>>

\* GET /stats builds a QueueClient and awaits getQueueStats
StatsCall ==
  /\ http.pc = "handler" /\ http.route = "GET /stats"
  /\ ~GetConfig(env).threw
  /\ GetQueueStats

\* GET /stats answers: 200 with the stats, or 500 from its catch block
StatsAnswers ==
  /\ http.pc = "handler" /\ http.route = "GET /stats"
  /\ clientCall.pc = "done"
  /\ IF clientCall.outcome.threw
       THEN Respond(500, Failure(clientCall.outcome.error))
       ELSE Respond(200, [success |-> TRUE, stats |-> clientCall.outcome.value])
  /\ UNCHANGED <<routeFrame, cron>>

\* the scheduled event arrives: handleSchedule calls handleEmailProcessing
\* (env.CRON names no token refresh)
CronFires ==
  /\ Quiet
  /\ cron' = [pc |-> "handler", outcome |-> Null]
  /\ UNCHANGED <<routeFrame, http>>

\* getConfig is called before the try block of handleEmailProcessing: its
\* error rejects the handler
CronConfigFails ==
  /\ cron.pc = "handler"
  /\ GetConfig(env).threw
  /\ cron' = [pc |-> "done", outcome |-> Throw(GetConfig(env).error)]
  /\ UNCHANGED <<routeFrame, http>>

\* handleEmailProcessing builds the clients and the processor and awaits
\* processPendingEmails
CronInvoke ==
  /\ cron.pc = "handler"
  /\ ~GetConfig(env).threw
  /\ Invoke("scheduled")

\* handleEmailProcessing logs the result, or the error in its catch block,
\* and resolves
CronSettles ==
  /\ cron.pc = "handler"
  /\ \/ /\ pc["scheduled"] = "returned"
        /\ cron' = [pc |-> "done",
                    outcome |-> Return([logged |-> "Scheduled processing result"])]
     \/ /\ pc["scheduled"] = "thrown"
        /\ cron' = [pc |-> "done",
                    outcome |-> Return([logged |-> "Error in scheduled email handler",
                                        error |-> thrown["scheduled"]])]
  /\ UNCHANGED <<routeFrame, http>>

\* the awaits of processPendingEmails for a batch of at most one message
Await(p) ==
  \/ FetchOk(p)
  \/ FetchFail(p)
  \/ SendOk(p)
  \/ SendFail(p)
  \/ MarkSentOk(p)
  \/ MarkSentFail(p)
  \/ MarkFailedOk(p)
  \/ MarkFailedFail(p)

\* the handler has answered: its processor and clients are dropped
Dropped ==
  \/ http.pc = "responded" /\ Finish("manual")
  \/ cron.pc = "done" /\ Finish("scheduled")
  \/ http.pc = "responded" /\ CallReturns

\* the response has gone out, the scheduled event is over
Closed ==
  /\ \A p \in Procs : pc[p] = "idle"
  /\ clientCall.pc = "idle"
  /\ \/ http.pc = "responded" /\ http' = IdleRequest /\ cron' = cron
     \/ cron.pc = "done" /\ cron' = IdleCron /\ http' = http
  /\ UNCHANGED routeFrame

\* the Worker's bindings are any of Envs; the clients are built from them
InitRoutes ==
  /\ InitControl
  /\ audited = {}
  /\ \E e \in Envs :
       /\ env = e
       /\ client = NewQueueClient(ConfigOf(e))
  /\ OneMessagePending

NextRoutes ==
  \/ Request
  \/ Authenticate
  \/ HandlerConfigFails
  \/ ProcessInvoke
  \/ ProcessAnswers
  \/ StatsCall
  \/ CountResponds
  \/ StatsAnswers
  \/ CronFires
  \/ CronConfigFails
  \/ CronInvoke
  \/ CronSettles
  \/ \E p \in Procs : Await(p)
  \/ Dropped
  \/ Closed

SpecRoutes == InitRoutes /\ [][NextRoutes]_vars

(* -------------------------- index.ts: GET /config ---------------------- *)
\* the values a secret binding may hold: unset, empty, or one of two secrets
SecretValues == {Null, "", "<secret-a>", "<secret-b>"}

\* a character of POLL_INTERVAL_MS that is no decimal digit
NonDigit == 0 - 1

\* the strings POLL_INTERVAL_MS may hold, as sequences of characters (a digit
\* stands for itself); the empty string stands for an unset binding too
PollValues == {<<>>, <<2, 5, 0>>, <<1, 2, NonDigit>>, <<NonDigit>>}

\* the bindings GET /config may run with
ConfigEnvs ==
  [AUTH_METHOD : {Null, "clerk"},
   API_JWT_TOKEN : SecretValues,
   CLERK_SECRET_KEY : {Null},
   CLERK_REFRESH_TOKEN : SecretValues,
   API_KEY : SecretValues,
   RESEND_API_KEY : SecretValues,
   API_BASE_URL : {Null, "https://api.example"},
   FROM_EMAIL : {Null, "mailer@example"},
   FROM_NAME : {Null},
   POLL_INTERVAL_MS : PollValues]

\* parseInt(string, 10): the value of the leading decimal digits, NaN when
\* there is none
RECURSIVE LeadingDigits(_)
LeadingDigits(chars) ==
  IF chars = <<>> \/ chars[1] = NonDigit THEN <<>>
  ELSE <<chars[1]>> \o LeadingDigits(Tail(chars))

RECURSIVE ValueOfDigits(_)
ValueOfDigits(ds) ==
  IF ds = <<>> THEN 0
  ELSE 10 * ValueOfDigits(SubSeq(ds, 1, Len(ds) - 1)) + ds[Len(ds)]

ParseInt(chars) ==
  IF LeadingDigits(chars) = <<>> THEN [nan |-> TRUE, value |-> 0]
  ELSE [nan |-> FALSE, value |-> ValueOfDigits(LeadingDigits(chars))]

\* binding || fallback
OrElse(value, fallback) == IF Falsy(value) THEN fallback ELSE value

ConfigResponseWithKey(e) ==
  [apiBaseUrl |-> OrElse(e.API_BASE_URL, "http://localhost:8080"),
   fromEmail |-> OrElse(e.FROM_EMAIL, "noreply@example.com"),
   fromName |-> OrElse(e.FROM_NAME, "Locomotive House"),
   pollIntervalMs |->
     ParseInt(IF e.POLL_INTERVAL_MS = <<>> THEN <<5, 0, 0, 0>> ELSE e.POLL_INTERVAL_MS),
   maxBatchSize |-> maxBatchSize,
   apiKey |-> e.API_KEY]

\* the body GET /config answers with: five fields of the MailerConfig
ConfigResponse(e) ==
  [apiBaseUrl |-> OrElse(e.API_BASE_URL, "http://localhost:8080"),
   fromEmail |-> OrElse(e.FROM_EMAIL, "noreply@example.com"),
   fromName |-> OrElse(e.FROM_NAME, "Locomotive House"),
   pollIntervalMs |->
     ParseInt(IF e.POLL_INTERVAL_MS = <<>> THEN <<5, 0, 0, 0>> ELSE e.POLL_INTERVAL_MS),
   maxBatchSize |-> maxBatchSize]

\* GET /config for bindings e: the handler has no try block, so an error of
\* getConfig is answered by the framework's default 500
ConfigRoute(e) ==
  IF GetConfig(e).threw
    THEN [status |-> 500, body |-> [text |-> "Internal Server Error"]]
    ELSE [status |-> 200, body |-> ConfigResponse(e)]

\* a request for GET /config arrives: the route has no middleware
ConfigRequest ==
  /\ http.pc = "idle"
  /\ http' = [IdleRequest EXCEPT !.pc = "handler", !.route = "GET /config"]
  /\ UNCHANGED <<routeFrame, cron>>

ConfigAnswers ==
  /\ http.pc = "handler" /\ http.route = "GET /config"
  /\ Respond(ConfigRoute(env).status, ConfigRoute(env).body)
  /\ UNCHANGED <<routeFrame, cron>>

InitConfig ==
  /\ InitControl
  /\ audited = {}
  /\ \E e \in ConfigEnvs :
       /\ env = e
       /\ client = NewQueueClient(ConfigOf(e))
  /\ queue = [id \in Ids |-> NewItem(0)]

NextConfig == ConfigRequest \/ ConfigAnswers

SpecConfig == InitConfig /\ [][NextConfig]_vars

(* ------- index.ts: POST /admin/clubs/:clubId/missing-reports/send ------ *)
SendRoute == "POST /admin/clubs/:clubId/missing-reports/send"

\* the owner email findTowersLackingReportsWithOwnerEmail attaches to a
\* tower: none (no owner, or an owner without email), empty, or an address
OwnerEmails == {Null, "", "owner@example"}

\* the towers lacking a report, as the ClubsClient returns them
RECURSIVE TowerLists(_)
TowerLists(n) ==
  IF n = 0 THEN {<<>>}
  ELSE TowerLists(n - 1) \cup
       {Append(towers, [ownerEmail |-> email]) :
          towers \in {t \in TowerLists(n - 1) : Len(t) = n - 1},
          email \in OwnerEmails}

\* towersLackingReports.filter((tower) => tower.ownerEmail), as the
\* positions kept
RECURSIVE WithEmails(_, _)
WithEmails(towers, from) ==
  IF from > Len(towers) THEN <<>>
  ELSE IF Falsy(towers[from].ownerEmail) THEN WithEmails(towers, from + 1)
  ELSE <<from>> \o WithEmails(towers, from + 1)

\* the path and query parameters, as strings of characters: clubId, and
\* year and month which may be absent
ClubIdParams == {<<NonDigit>>, <<0>>, <<7>>}
YearParams == {<<>>, <<1, 9, 9, 9>>, <<2, 0, 2, 6>>}
MonthParams == {<<>>, <<0>>, <<6>>, <<1, 3>>}

\* today's year and month, used for an absent parameter
ThisYear == <<2, 0, 2, 6>>
ThisMonth == <<1, 1>>

\* the validation of the parameters: the error answered with 400, or Null
ValidateParams(clubId, year, month) ==
  LET club == ParseInt(clubId)
      y == ParseInt(IF year = <<>> THEN ThisYear ELSE year)
      m == ParseInt(IF month = <<>> THEN ThisMonth ELSE month)
  IN IF club.nan \/ club.value <= 0 THEN "Invalid clubId parameter"
     ELSE IF y.nan \/ y.value < 2000 \/ y.value > 2100
       THEN "Invalid year parameter (must be between 2000 and 2100)"
     ELSE IF m.nan \/ m.value < 1 \/ m.value > 12
       THEN "Invalid month parameter (must be between 1 and 12)"
     ELSE Null

NoLocals ==
  [towers |-> <<>>, withEmails |-> <<>>, idx |-> 0, queued |-> 0, failed |-> 0,
   errors |-> <<>>, settled |-> <<>>]

\* the handler runs up to its first await: getConfig and the parameter
\* checks answer 500 (from the catch block) or 400, else the towers are asked for
SendStarts ==
  /\ http.pc = "idle"
  /\ \E clubId \in ClubIdParams : \E year \in YearParams : \E month \in MonthParams :
       LET request == [IdleRequest EXCEPT !.route = SendRoute] @@ [locals |-> NoLocals]
       IN IF GetConfig(env).threw
            THEN http' = [request EXCEPT !.pc = "responded", !.status = 500,
                                         !.body = Failure(GetConfig(env).error)]
          ELSE IF ValidateParams(clubId, year, month) # Null
            THEN http' = [request EXCEPT !.pc = "responded", !.status = 400,
                            !.body = Failure(ValidateParams(clubId, year, month))]
          ELSE http' = [request EXCEPT !.pc = "findTowers"]
  /\ UNCHANGED <<routeFrame, cron>>

\* findTowersLackingReportsWithOwnerEmail rejects: the catch block answers 500
TowersFail ==
  /\ http.pc = "findTowers"
  /\ Respond(500, Failure("Failed to fetch towers"))
  /\ UNCHANGED <<routeFrame, cron>>

\* findTowersLackingReportsWithOwnerEmail resolves: with no owner email at
\* all the handler answers at once, else the loop over towersWithEmails starts
TowersFound ==
  /\ http.pc = "findTowers"
  /\ \E towers \in TowerLists(MaxTowers) :
       IF WithEmails(towers, 1) = <<>>
         THEN http' = [http EXCEPT
                         !.pc = "responded", !.status = 200,
                         !.locals = [NoLocals EXCEPT !.towers = towers],
                         !.body = [success |-> TRUE, queued |-> 0,
                                   skipped |-> Len(towers)]]
         ELSE http' = [http EXCEPT
                         !.pc = "queueing",
                         !.locals = [NoLocals EXCEPT !.towers = towers,
                                       !.withEmails = WithEmails(towers, 1),
                                       !.idx = 1]]
  /\ UNCHANGED <<routeFrame, cron>>

\* the loop body calls queueClient.queueEmail for the next tower
QueueNext ==
  /\ http.pc = "queueing"
  /\ http.locals.idx <= Len(http.locals.withEmails)
  /\ QueueEmail

AbortAfterFailure(idx, n) == n + 1

\* the catch block inside the loop: the for loop goes on with the next tower
ContinueAfterFailure(idx, n) == idx + 1

\* queueEmail has settled: queued++, or failed++ and errors.push in the
\* catch block (settled keeps which tower each call was made for)
QueueSettles ==
  /\ http.pc = "queueing"
  /\ clientCall.pc = "done" /\ clientCall.name = "queueEmail"
  /\ LET l == http.locals
         tower == l.withEmails[l.idx]
     IN http' = [http EXCEPT !.locals =
          IF clientCall.outcome.threw
            THEN [l EXCEPT !.failed = @ + 1,
                           !.errors = Append(@, [towerName |-> tower,
                                                 error |-> clientCall.outcome.error]),
                           !.settled = Append(@, [tower |-> tower, ok |-> FALSE]),
                           !.idx = ContinueAfterFailure(l.idx, Len(l.withEmails))]
            ELSE [l EXCEPT !.queued = @ + 1,
                           !.settled = Append(@, [tower |-> tower, ok |-> TRUE]),
                           !.idx = @ + 1]]
  /\ clientCall' = IdleCall
  /\ network' = <<>>
  /\ UNCHANGED <<queue, pc, emails, i, result, errorMessage, thrown, calls,
                 invocations, audited, attempts, lost, delivered, client, env, cron>>

\* the loop is over: 200 with the counts
SendAnswers ==
  /\ http.pc = "queueing"
  /\ clientCall.pc = "idle"
  /\ http.locals.idx > Len(http.locals.withEmails)
  /\ Respond(200, [success |-> TRUE,
                   queued |-> http.locals.queued,
                   failed |-> http.locals.failed,
                   skipped |-> Len(http.locals.towers) - Len(http.locals.withEmails),
                   errors |-> http.locals.errors])
  /\ UNCHANGED <<routeFrame, cron>>

\* the bindings the route is served with: the deployed ones, or the same
\* without API_JWT_TOKEN
ReminderEnvs == {DeployedEnv, [DeployedEnv EXCEPT !.API_JWT_TOKEN = Null]}

InitReminders ==
  /\ InitControl
  /\ audited = {}
  /\ \E e \in ReminderEnvs :
       /\ env = e
       /\ client = NewQueueClient(ConfigOf(e))
  /\ queue = [id \in Ids |-> NewItem(0)]

NextReminders ==
  \/ SendStarts
  \/ TowersFail
  \/ TowersFound
  \/ QueueNext
  \/ QueueEmailResponds
  \/ QueueSettles
  \/ SendAnswers

SpecReminders == InitReminders /\ [][NextReminders]_vars

(* ------------- token-refresh-handler.ts: GET /admin/refresh-schedule --- *)
Abs(x) == IF x < 0 THEN 0 - x ELSE x

\* Object.entries(cronSchedules): integer keys come in ascending order
CronKeys == <<1, 3, 7, 14, 20, 30>>

CronSchedules ==
  [days \in {1, 3, 7, 14, 20, 30} |->
     CASE days = 1 -> "0 0 * * *"
       [] days = 3 -> "0 0 */3 * *"
       [] days = 7 -> "0 0 * * 0"
       [] days = 14 -> "0 0 1,15 * *"
       [] days = 20 -> "0 2 * * 0,3"
       [] days = 30 -> "0 2 * * 0"]

\* Math.max(Math.floor(expirationDays * 0.67), 1); for the whole numbers of
\* days up to 2000 the double product has the floor of 67 * days / 100, and
\* NaN stays NaN
RefreshDays(expirationDays) ==
  IF expirationDays.nan THEN expirationDays
  ELSE [nan |-> FALSE,
        value |-> IF (67 * expirationDays.value) \div 100 < 1 THEN 1
                  ELSE (67 * expirationDays.value) \div 100]

\* the comparison of reduce: is key days nearer to refreshDays than prev
\* (every comparison with NaN is false)
Closer(days, prev, refreshDays) ==
  /\ ~refreshDays.nan
  /\ Abs(days - refreshDays.value) < Abs(prev - refreshDays.value)

\* reduce from entry n on, prev being the entry kept so far
RECURSIVE ClosestFrom(_, _, _)
ClosestFrom(prev, n, refreshDays) ==
  IF n > Len(CronKeys) THEN prev
  ELSE ClosestFrom(IF Closer(CronKeys[n], prev, refreshDays) THEN CronKeys[n] ELSE prev,
                   n + 1, refreshDays)

GetRefreshSchedule(expirationDays) ==
  LET closest == ClosestFrom(CronKeys[1], 2, RefreshDays(expirationDays))
  IN [recommended |-> CronSchedules[closest],
      explanation |-> [tokenDays |-> expirationDays, every |-> closest,
                       cron |-> CronSchedules[closest]]]

\* the tokenExpirationDays query parameter, as a string of characters:
\* absent, no number, or the decimal digits of a number of days
DayQueries ==
  {<<>>, <<NonDigit>>} \cup {Digits(n) : n \in 0..(ExpirationLimit + 1)}

\* a request for GET /admin/refresh-schedule arrives at the handler (past the
\* auth middleware when the routes were created with one)
ScheduleRequest ==
  /\ http.pc = "idle"
  /\ \E query \in DayQueries :
       http' = [IdleRequest EXCEPT !.pc = "handler",
                                   !.route = "GET /admin/refresh-schedule"]
               @@ [query |-> query]
  /\ UNCHANGED <<routeFrame, cron>>

\* refreshScheduleHandler: 400 outside 1..365, else the recommendation
ScheduleAnswers ==
  /\ http.pc = "handler" /\ http.route = "GET /admin/refresh-schedule"
  /\ LET expirationDays ==
           ParseInt(IF http.query = <<>> THEN <<3, 0>> ELSE http.query)
     IN IF /\ ~expirationDays.nan
           /\ (expirationDays.value < 1 \/ expirationDays.value > ExpirationLimit)
          THEN Respond(400, [error |-> "tokenExpirationDays must be between 1 and 365"])
          ELSE Respond(200, [recommended |-> GetRefreshSchedule(expirationDays).recommended,
                             explanation |-> GetRefreshSchedule(expirationDays).explanation,
                             expirationDays |-> expirationDays])
  /\ UNCHANGED <<routeFrame, cron>>

InitSchedule ==
  /\ InitControl
  /\ audited = {}
  /\ env = DeployedEnv
  /\ client = NewQueueClient(DeployedConfig)
  /\ queue = [id \in Ids |-> NewItem(0)]

NextSchedule == ScheduleRequest \/ ScheduleAnswers

SpecSchedule == InitSchedule /\ [][NextSchedule]_vars

(* ====================================================================== *)
(* Properties                                                             *)
(* ====================================================================== *)
\* the entries of an invocation's call log for one operation and one id
Entries(p, op, id) ==
  {k \in DOMAIN calls[p] : calls[p][k].op = op /\ calls[p][k].id = id}

Made(p, op) == {k \in DOMAIN calls[p] : calls[p][k].op = op}

Delivered(p, id) == \E k \in Entries(p, "sendEmail", id) : calls[p][k].ok

DeliveryFailed(p, id) == \E k \in Entries(p, "sendEmail", id) : ~calls[p][k].ok

Updated(p, op, id) == \E k \in Entries(p, op, id) : calls[p][k].ok

\* the message as getPendingEmails returned it to invocation p
Fetched(p, id) == CHOOSE e \in Range(emails[p]) : e.id = id

BatchIds(p) == {emails[p][k].id : k \in DOMAIN emails[p]}

\* C1: when processPendingEmails returns a result, processed + failed equals
\* the number of messages getPendingEmails returned to that invocation.
C1_ProcessedPlusFailedIsFetched ==
  \A p \in Procs :
    pc[p] = "returned" =>
      result[p].processed + result[p].failed = Len(emails[p])

C1_Witness ==
  \E p \in Procs :
    /\ pc[p] = "returned"
    /\ result[p].processed = 1
    /\ result[p].failed = 1
    /\ \E id \in BatchIds(p) : Updated(p, "markAsSent", id)
    /\ \E id \in BatchIds(p) : DeliveryFailed(p, id)

\* C2: retry policy. After a failed delivery of a message fetched with
\* retryCount r and maxRetries m whose markAsFailed update succeeded, the
\* stored message has retryCount r+1, lastError the delivery error, and
\* status pending if r < m, failed if r >= m.
C2_RetryPolicy ==
  \A p \in Procs : \A id \in BatchIds(p) :
    (DeliveryFailed(p, id) /\ Updated(p, "markAsFailed", id)) =>
      LET r == Fetched(p, id).retry_count
          m == Fetched(p, id).max_retries
          e == calls[p][CHOOSE k \in Entries(p, "sendEmail", id) : TRUE].err
      IN /\ queue[id].retry_count = r + 1
         /\ queue[id].last_error = e
         /\ r < m => queue[id].status = "pending"
         /\ r >= m => queue[id].status = "failed"

C2_Witness ==
  \E p \in Procs : \E id \in BatchIds(p) :
    /\ DeliveryFailed(p, id) /\ Updated(p, "markAsFailed", id)
    /\ Fetched(p, id).retry_count = 1
    /\ Fetched(p, id).max_retries = 1
    /\ queue[id].status = "failed"
    /\ queue[id].retry_count = 2

\* C3 as stated: a step that raises a message's retryCount to meet or exceed
\* its maxRetries leaves the message failed, and a failed message stays failed.
C3_Original ==
  [][\A id \in Ids :
       /\ (queue'[id].retry_count > queue[id].retry_count
           /\ queue'[id].retry_count >= queue'[id].max_retries)
            => queue'[id].status = "failed"
       /\ queue[id].status = "failed" => queue'[id].status = "failed"]_vars

\* C3 amended: a step that raises a message's retryCount above its maxRetries
\* leaves the message failed (reaching maxRetries exactly leaves it pending),
\* and, with invocations run one after another, a failed message stays failed.
C3_FailedOnceRetriesExceeded ==
  [][\A id \in Ids :
       /\ (queue'[id].retry_count > queue[id].retry_count
           /\ queue'[id].retry_count > queue'[id].max_retries)
            => queue'[id].status = "failed"
       /\ (queue'[id].retry_count > queue[id].retry_count
           /\ queue'[id].retry_count <= queue'[id].max_retries)
            => queue'[id].status = "pending"
       /\ queue[id].status = "failed" => queue'[id].status = "failed"]_vars

C3_Witness ==
  \E p \in Procs : \E id \in Ids :
    /\ queue[id].status = "failed"
    /\ queue[id].retry_count = queue[id].max_retries + 1
    /\ id \notin BatchIds(p)
    /\ pc[p] = "returned"
    /\ Len(emails[p]) > 0

\* C4: with invocations run one after another, every stored message whose
\* status is pending has retryCount <= maxRetries.
C4_PendingWithinMaxRetries ==
  \A id \in Ids :
    queue[id].status = "pending" => queue[id].retry_count <= queue[id].max_retries

C4_Witness ==
  \E id \in Ids :
    /\ queue[id].status = "pending"
    /\ queue[id].retry_count = queue[id].max_retries
    /\ queue[id].max_retries = MaxMaxRetries

\* C5: with invocations run one after another, no step lowers a stored
\* retryCount and no step takes a failed message to pending or sent.
C5_Monotonic ==
  [][\A id \in Ids :
       /\ queue'[id].retry_count >= queue[id].retry_count
       /\ queue[id].status = "failed" => queue'[id].status \notin {"pending", "sent"}]_vars

C5_Witness ==
  \E id \in Ids : \E other \in Ids :
    /\ queue[id].status = "failed"
    /\ queue[other].status = "sent"
    /\ queue[other].retry_count >= 1
    /\ invocations = MaxInvocations

\* C6 as stated: when delivery succeeded and markAsSent failed, the invocation
\* makes no markAsFailed call for that message and the stored record keeps
\* the status, retryCount and lastError it was fetched with.
C6_Original ==
  \A p \in Procs : \A id \in BatchIds(p) :
    (Delivered(p, id) /\ Entries(p, "markAsSent", id) # {}
       /\ ~Updated(p, "markAsSent", id)) =>
      /\ Entries(p, "markAsFailed", id) = {}
      /\ queue[id].status = "pending"
      /\ queue[id].retry_count = Fetched(p, id).retry_count
      /\ queue[id].last_error = Fetched(p, id).last_error

\* C7 as stated: the returned result counts as processed the messages whose
\* delivery succeeded, as failed those whose delivery failed, and every entry
\* of errors names a message whose delivery failed.
C7_Original ==
  \A p \in Procs :
    pc[p] = "returned" =>
      /\ result[p].processed = Cardinality({id \in BatchIds(p) : Delivered(p, id)})
      /\ result[p].failed = Cardinality({id \in BatchIds(p) : DeliveryFailed(p, id)})
      /\ \A k \in DOMAIN result[p].errors :
           DeliveryFailed(p, result[p].errors[k].emailId)

\* C8 as stated: for each message of a returned batch exactly one
\* reconciliation call was made: markAsSent iff delivery succeeded,
\* markAsFailed iff delivery failed, never both.
C8_Original ==
  \A p \in Procs : \A id \in BatchIds(p) :
    pc[p] = "returned" =>
      /\ Cardinality(Entries(p, "markAsSent", id) \cup Entries(p, "markAsFailed", id)) = 1
      /\ Entries(p, "markAsSent", id) # {} <=> Delivered(p, id)
      /\ Entries(p, "markAsFailed", id) # {} <=> DeliveryFailed(p, id)

\* C9: when getPendingEmails returns an empty list the invocation returns
\* {processed: 0, failed: 0, errors: []} and has made no sendEmail,
\* markAsSent, markAsFailed or sleep call.
C9_EmptyBatchIsNoOp ==
  \A p \in Procs :
    (pc[p] \notin {"idle", "getPendingEmails", "thrown"} /\ Len(emails[p]) = 0) =>
      /\ pc[p] = "returned"
      /\ result[p] = [processed |-> 0, failed |-> 0, errors |-> <<>>]
      /\ \A k \in DOMAIN calls[p] :
           calls[p][k].op \notin {"sendEmail", "markAsSent", "markAsFailed", "sleep"}

C9_Witness ==
  \E p \in Procs :
    /\ pc[p] = "returned"
    /\ Len(emails[p]) = 0
    /\ \E id \in Ids : queue[id].status = "sent"

\* C10: when getPendingEmails fails the invocation throws that same error,
\* having called getPendingEmails once and made no sendEmail, markAsSent or
\* markAsFailed call.
C10_FetchFailurePropagates ==
  \A p \in Procs :
    (\E k \in Made(p, "getPendingEmails") : ~calls[p][k].ok) =>
      /\ pc[p] = "thrown"
      /\ thrown[p] = calls[p][1].err
      /\ Len(calls[p]) = 1

C10_Witness ==
  \E p \in Procs :
    /\ pc[p] = "thrown"
    /\ thrown[p] = "fetch failed"
    /\ \E id \in Ids : queue[id].status = "pending"

IsSend(c) == c.op = "sendEmail"

IsSleep(c) == c.op = "sleep"

\* a completed reconciliation call: markAsSent resolved, or markAsFailed
\* settled either way (a rejected markAsSent is followed by markAsFailed)
IsReconciled(c) == (c.op = "markAsSent" /\ c.ok) \/ c.op = "markAsFailed"

\* the sendEmail calls of an invocation, in the order they were made
Sends(p) == SelectSeq(calls[p], IsSend)

\* position of message id in the list invocation p fetched
Pos(p, id) == CHOOSE k \in DOMAIN emails[p] : emails[p][k].id = id

\* C11: once getPendingEmails has returned, the invocation never throws,
\* whatever sendEmail, markAsSent and markAsFailed do: it throws only when
\* the fetch (credential check included) failed.
C11_NoThrowAfterFetch ==
  \A p \in Procs :
    (calls[p] # <<>> /\ calls[p][1].ok) =>
      (pc[p] # "thrown" /\ thrown[p] = Null)

C11_Witness ==
  \E p \in Procs : \E id \in BatchIds(p) : \E other \in BatchIds(p) :
    /\ pc[p] = "returned"
    /\ Entries(p, "markAsSent", id) # {} /\ ~Updated(p, "markAsSent", id)
    /\ Entries(p, "markAsFailed", id) # {} /\ ~Updated(p, "markAsFailed", id)
    /\ DeliveryFailed(p, other)

\* C12: a delivery error for message X leaves exactly one entry
\* {emailId: X, error: the error's message} in result.errors, and the entries
\* are in the order the messages were attempted.
C12_OneErrorEntryPerFailure ==
  \A p \in Procs :
    /\ \A id \in BatchIds(p) :
         DeliveryFailed(p, id) =>
           LET e == calls[p][CHOOSE k \in Entries(p, "sendEmail", id) : TRUE].err
               hits == {k \in DOMAIN result[p].errors : result[p].errors[k].emailId = id}
           IN /\ Cardinality(hits) = 1
              /\ \A k \in hits : result[p].errors[k].error = e
    /\ \A k1, k2 \in DOMAIN result[p].errors :
         k1 < k2 => Pos(p, result[p].errors[k1].emailId)
                      < Pos(p, result[p].errors[k2].emailId)

C12_Witness ==
  \E p \in Procs :
    /\ Len(result[p].errors) = 2
    /\ \A id \in BatchIds(p) : DeliveryFailed(p, id)
    /\ emails[p][1].id > emails[p][2].id

\* C13: within one invocation sendEmail is called for the fetched messages
\* in the order of the list, once each, and when the invocation returns none
\* was skipped, whatever failed before.
C13_EachMessageSentOnceInOrder ==
  \A p \in Procs :
    /\ Len(Sends(p)) <= Len(emails[p])
    /\ \A k \in DOMAIN Sends(p) : Sends(p)[k].id = emails[p][k].id
    /\ pc[p] = "returned" => Len(Sends(p)) = Len(emails[p])

C13_Witness ==
  \E p \in Procs :
    /\ pc[p] = "returned"
    /\ Len(emails[p]) = 2
    /\ emails[p][1].id = 2
    /\ ~Sends(p)[1].ok
    /\ ~Updated(p, "markAsFailed", 2)
    /\ Sends(p)[2].ok

\* C14: every stored message with status sent has sentAt set and lastError
\* cleared, and every stored message with status failed has lastError set.
C14_SentAndFailedFields ==
  \A id \in Ids :
    /\ queue[id].status = "sent" =>
         (queue[id].sent_at # Null /\ queue[id].last_error = Null)
    /\ queue[id].status = "failed" => queue[id].last_error # Null

C14_Witness ==
  \E id \in Ids : \E other \in Ids :
    /\ queue[id].status = "sent"
    /\ queue[id].retry_count = 1
    /\ queue[other].status = "failed"

\* C15: when markAsFailed itself fails after a delivery failure the
\* invocation does not throw, the failure is counted in result.failed and
\* listed in result.errors, the stored message is as it was fetched, and the
\* returned batch has attempted every message.
C15_MarkFailedFailureSwallowed ==
  \A p \in Procs : \A id \in BatchIds(p) :
    (DeliveryFailed(p, id) /\ Entries(p, "markAsFailed", id) # {}
       /\ ~Updated(p, "markAsFailed", id)) =>
      /\ pc[p] # "thrown"
      /\ \E k \in DOMAIN result[p].errors : result[p].errors[k].emailId = id
      /\ result[p].failed = Len(result[p].errors)
      /\ queue[id].status = "pending"
      /\ queue[id].retry_count = Fetched(p, id).retry_count
      /\ queue[id].last_error = Fetched(p, id).last_error
      /\ pc[p] = "returned" => \A other \in BatchIds(p) : Entries(p, "sendEmail", other) # {}

C15_Witness ==
  \E p \in Procs :
    /\ pc[p] = "returned"
    /\ Len(emails[p]) = 2
    /\ DeliveryFailed(p, emails[p][1].id)
    /\ Entries(p, "markAsFailed", emails[p][1].id) # {}
    /\ ~Updated(p, "markAsFailed", emails[p][1].id)
    /\ Updated(p, "markAsSent", emails[p][2].id)
    /\ queue[emails[p][1].id].retry_count = 1

\* C16 as stated: the number of delivery attempts made for one message never
\* exceeds its maxRetries + 1.
C16_Original ==
  \A id \in audited : attempts[id] <= queue[id].max_retries + 1

\* C16 amended: the number of delivery attempts made for one message never
\* exceeds its maxRetries + 1 plus the number of its attempts whose
\* markAsFailed update was rejected, and sendEmail is only called for a
\* message that is stored pending.
C16_BoundedRetries ==
  /\ \A id \in audited : attempts[id] <= queue[id].max_retries + 1 + lost[id]
  /\ \A p \in Procs :
       pc[p] = "sendEmail" => queue[Email(p).id].status = "pending"

C16_Witness ==
  \E id \in audited :
    /\ queue[id].max_retries = 1
    /\ attempts[id] = 2
    /\ lost[id] = 0
    /\ queue[id].status = "failed"

\* C18: within one invocation the calls are strictly sequential: a
\* reconciliation call follows the settled sendEmail (or the rejected
\* markAsSent) of the same message, and the sendEmail of the next message
\* follows the settled reconciliation of the previous one.
C18_StrictlySequential ==
  \A p \in Procs : \A j \in DOMAIN calls[p] :
    LET c == calls[p][j]
        before == calls[p][j - 1]
    IN /\ c.op = "markAsSent" =>
            (before.op = "sendEmail" /\ before.ok /\ before.id = c.id)
       /\ c.op = "markAsFailed" =>
            (/\ before.op \in {"sendEmail", "markAsSent"}
             /\ ~before.ok
             /\ before.id = c.id)
       /\ (c.op = "sendEmail" /\ j > 2) =>
            LET prev == IF IsSleep(before) THEN calls[p][j - 2] ELSE before
            IN /\ IsReconciled(prev)
               /\ prev.id = emails[p][Pos(p, c.id) - 1].id

C18_Witness ==
  \E p \in Procs :
    /\ pc[p] = "markAsFailed"
    /\ i[p] = 2
    /\ Updated(p, "markAsSent", emails[p][1].id)
    /\ Entries(p, "markAsSent", emails[p][2].id) # {}

\* C19: a returned batch of n >= 1 messages has made exactly n-1 pacing
\* sleeps, each right after a message's reconciliation call and right before
\* the next message's sendEmail; none before the first message, none after
\* the last.
C19_Pacing ==
  \A p \in Procs :
    /\ (pc[p] = "returned" /\ Len(emails[p]) >= 1) =>
         /\ Len(SelectSeq(calls[p], IsSleep)) = Len(emails[p]) - 1
         /\ ~IsSleep(calls[p][Len(calls[p])])
    /\ \A j \in DOMAIN calls[p] :
         IsSleep(calls[p][j]) =>
           /\ j > 2
           /\ IsReconciled(calls[p][j - 1])
           /\ j < Len(calls[p]) => IsSend(calls[p][j + 1])
           /\ (j = Len(calls[p]) /\ pc[p] # "sleep") => pc[p] = "sendEmail"

C19_Witness ==
  \E p \in Procs :
    /\ pc[p] = "returned"
    /\ Len(emails[p]) = 2
    /\ Len(SelectSeq(calls[p], IsSleep)) = 1
    /\ IsSleep(calls[p][4])

\* C17: nothing coordinates two invocations: the step in which an invocation
\* receives its list from getPendingEmails leaves the store as it was (no
\* lease or claim is taken), so a second invocation that fetches before the
\* first has updated the message receives it too and sendEmail is called for
\* it by both.
C17_FetchTakesNoLease ==
  [][\A p \in Procs :
       (pc[p] = "getPendingEmails" /\ pc'[p] # "getPendingEmails") =>
         queue' = queue]_vars

\* both invocations have called sendEmail for the same message, each having
\* fetched it as pending, before either has updated it
C17_Witness ==
  \E id \in Ids :
    \A p \in Procs :
      /\ id \in BatchIds(p)
      /\ Fetched(p, id).status = "pending"
      /\ Delivered(p, id)
      /\ pc[p] = "markAsSent"
      /\ Entries(p, "markAsSent", id) = {}

RECURSIVE DigitsValue(_)
DigitsValue(ds) ==
  IF Len(ds) = 0 THEN 0
  ELSE 10 * DigitsValue(SubSeq(ds, 1, Len(ds) - 1)) + ds[Len(ds)]

DecimalValue(str) ==
  IF str.sign = "-" THEN 0 - DigitsValue(str.digits) ELSE DigitsValue(str.digits)

\* C21: the one request getPendingEmails(limit) issues carries, as its limit
\* parameter, the decimal string of limit when limit is below 100 and of 100
\* otherwise: the requested limit never exceeds the provider maximum.
C21_RequestedLimitClamped ==
  (clientCall.name = "getPendingEmails" /\ network # <<>>) =>
    /\ Len(network) = 1
    /\ network[1].path = "/api/email-queue/pending/list"
    /\ DecimalValue(network[1].query.limit) =
         (IF clientCall.limit <= ProviderMaxLimit THEN clientCall.limit
                                                  ELSE ProviderMaxLimit)
    /\ DecimalValue(network[1].query.limit) <= ProviderMaxLimit

\* a limit above the maximum was asked for and "100" was requested
C21_Witness ==
  /\ clientCall.name = "getPendingEmails"
  /\ clientCall.limit = ProviderMaxLimit + 1
  /\ network # <<>>
  /\ network[1].query.limit = [sign |-> "", digits |-> <<1, 0, 0>>]

\* the token of the configured auth method is not set
CredentialAbsent ==
  \/ client.authMethod = "clerk" /\ client.clerkRefreshToken = Null
  \/ client.authMethod # "clerk" /\ client.authToken = Null

CredentialError ==
  IF client.authMethod = "clerk" THEN "Clerk refresh token not configured"
                                 ELSE "JWT token not configured"

QueueClientOps ==
  {"queueEmail", "getPendingEmails", "markAsSent", "markAsFailed", "getQueueStats"}

\* C22: with the credential of the configured auth method absent, a call of
\* any QueueClient operation has failed with the credential error as soon as
\* it was made and no request has gone out, and a processPendingEmails
\* invocation throws that error after its getPendingEmails call, having made
\* no other call.
C22_NoCredentialFailsBeforeNetwork ==
  CredentialAbsent =>
    /\ clientCall.name \in QueueClientOps =>
         /\ clientCall.pc = "done"
         /\ clientCall.outcome = Throw(CredentialError)
         /\ network = <<>>
    /\ \A p \in Procs :
         /\ pc[p] \in {"idle", "getPendingEmails", "thrown"}
         /\ pc[p] = "thrown" =>
              /\ thrown[p] = CredentialError
              /\ calls[p] = <<Call("getPendingEmails", 0, FALSE, CredentialError)>>

\* clerk mode without a refresh token: processPendingEmails has thrown
C22_Witness ==
  /\ client.authMethod = "clerk"
  /\ client.clerkRefreshToken = Null
  /\ pc["scheduled"] = "thrown"
  /\ thrown["scheduled"] = "Clerk refresh token not configured"
  /\ Made("scheduled", "sendEmail") = {}

\* C23: a sendEmail call issues one request to the provider and, once it has
\* settled, still only that one; it returned the provider id when the provider
\* answered with data, and threw when the provider answered with an error or
\* with no data, or when the request itself failed.
C23_OneProviderCallNoRetry ==
  clientCall.name = "sendEmail" =>
    /\ network = <<[to |-> "provider", email |-> clientCall.id]>>
    /\ clientCall.pc = "done" =>
         IF "result" \in DOMAIN clientCall
           THEN IF clientCall.result.error # Null
                  THEN clientCall.outcome = Throw("Resend API error")
                ELSE IF clientCall.result.data = Null
                  THEN clientCall.outcome = Throw("No email ID returned from Resend")
                ELSE clientCall.outcome = Return(clientCall.result.data)
           ELSE clientCall.outcome = Throw("fetch failed")

\* the provider answered with neither data nor an error: sendEmail threw,
\* one request made
C23_Witness ==
  /\ clientCall.name = "sendEmail"
  /\ clientCall.pc = "done"
  /\ clientCall.outcome = Throw("No email ID returned from Resend")
  /\ Len(network) = 1

\* every call the invocation made resolved
AllCallsOk(p) == \A k \in DOMAIN calls[p] : calls[p][k].ok

\* C24: when a batch of n messages has returned and every sendEmail and every
\* markAsSent call of it resolved, the result is {processed: n, failed: 0,
\* errors: []} and each of the n messages is stored as sent with the
\* retry_count it was fetched with.
C24_AllSucceed ==
  \A p \in Procs :
    (pc[p] = "returned" /\ AllCallsOk(p)) =>
      /\ result[p] = [processed |-> Len(emails[p]), failed |-> 0, errors |-> <<>>]
      /\ \A id \in BatchIds(p) :
           /\ Updated(p, "markAsSent", id)
           /\ queue[id].status = "sent"
           /\ queue[id].retry_count = Fetched(p, id).retry_count

\* a batch of two messages, one of them on its second attempt, all delivered
C24_Witness ==
  \E p \in Procs :
    /\ pc[p] = "returned"
    /\ AllCallsOk(p)
    /\ Len(emails[p]) = 2
    /\ \E id \in BatchIds(p) : Fetched(p, id).retry_count = 1

\* the number of stored messages having a status
TrueCount(status) == Cardinality({id \in Ids : queue[id].status = status})

StatsReturned ==
  /\ clientCall.name = "getQueueStats"
  /\ clientCall.pc = "done"
  /\ ~clientCall.outcome.threw

InBatch(p) == pc[p] \in {"sendEmail", "markAsSent", "markAsFailed", "sleep"}

\* C26: an invocation that has entered its loop eventually returns its
\* result, every fetched message having been attempted, whatever the
\* collaborator calls answer, provided each of them settles.
C26_BatchRunsToCompletion ==
  \A p \in Procs :
    InBatch(p) ~> (pc[p] = "returned" /\ Len(Sends(p)) = Len(emails[p]))

\* a batch of two has returned although the first delivery failed and its
\* markAsFailed update was rejected
C26_Witness ==
  \E p \in Procs :
    /\ pc[p] = "returned"
    /\ Len(emails[p]) = 2
    /\ Len(Sends(p)) = 2
    /\ ~Sends(p)[1].ok
    /\ ~Updated(p, "markAsFailed", emails[p][1].id)

\* C27 as written: under overlapping invocations no step writes a message
\* stored as failed back to pending, and no step lowers a stored
\* retry_count.
C27_Original ==
  [][\A id \in Ids :
       /\ queue[id].status = "failed" => queue'[id].status # "pending"
       /\ queue'[id].retry_count >= queue[id].retry_count]_vars

\* C28 as written: under overlapping invocations no step changes a message
\* stored as sent to pending or failed.
C28_Original ==
  [][\A id \in Ids :
       queue[id].status = "sent" => queue'[id].status = "sent"]_vars

\* C29: when invocations do not overlap and every markAsSent and markAsFailed
\* update is accepted, sendEmail has resolved at most once for any message,
\* and a message it has resolved for is not stored as failed.
C29_AtMostOnceWhenUpdatesSucceed ==
  \A id \in audited :
    /\ delivered[id] <= 1
    /\ delivered[id] >= 1 => queue[id].status # "failed"

\* a message was delivered on its second attempt, and a later invocation has
\* run without attempting it again
C29_Witness ==
  \E id \in audited :
    /\ attempts[id] = 2
    /\ delivered[id] = 1
    /\ queue[id].status = "sent"
    /\ invocations = 3
    /\ pc["scheduled"] = "returned"

\* C30: when processPendingEmails is invoked again and again, every fetch and
\* every store update succeeds and every pending message is eventually in a
\* fetched batch, each message created pending eventually has status sent or
\* failed and keeps a status of that kind from then on.
C30_EveryMessageSettles ==
  \A id \in Ids : <>[](queue[id].status \in {"sent", "failed"})

\* one message was delivered after a failed attempt, another used up its
\* retries and is stored as failed, and nothing is pending any more
C30_Witness ==
  /\ \E id \in Ids : queue[id].status = "sent" /\ queue[id].retry_count >= 1
  /\ \E id \in Ids : /\ queue[id].status = "failed"
                     /\ queue[id].retry_count = queue[id].max_retries + 1
  /\ \A id \in Ids : queue[id].status # "pending"
  /\ pc["scheduled"] = "idle"

\* the messages whose processEmail has returned in invocation p: markAsSent
\* resolved, or markAsFailed settled either way
IsFinalUpdate(c) ==
  \/ c.op = "markAsSent" /\ c.ok
  \/ c.op = "markAsFailed"

FinishedSoFar(p) == Len(SelectSeq(calls[p], IsFinalUpdate))

\* C31 as stated: at every point of an invocation result.errors has
\* result.failed entries and result.processed + result.failed is the number
\* of messages whose processing has finished.
C31_Original ==
  \A p \in Procs :
    /\ Len(result[p].errors) = result[p].failed
    /\ result[p].processed + result[p].failed = FinishedSoFar(p)

\* C31: at every point of an invocation result.errors has result.failed
\* entries, and result.processed + result.failed is the number of messages
\* whose processing has finished, plus one while markAsFailed is awaited for
\* the message being processed (its failure is counted before that call).
C31_CountsMatchProgress ==
  \A p \in Procs :
    /\ Len(result[p].errors) = result[p].failed
    /\ result[p].processed + result[p].failed =
         FinishedSoFar(p) + (IF pc[p] = "markAsFailed" THEN 1 ELSE 0)

\* the first message of the batch was delivered and recorded, the second has
\* just failed and its markAsFailed is still awaited
C31_Witness ==
  \E p \in Procs :
    /\ pc[p] = "markAsFailed"
    /\ result[p].processed = 1
    /\ result[p].failed = 1
    /\ FinishedSoFar(p) = 1

\* the fields of message id outside the set fields are the same after the step
FrameOutside(id, fields) ==
  \A f \in (DOMAIN queue[id]) \ fields : queue'[id][f] = queue[id][f]

\* invocation p has just logged one more call
LoggedCall(p) == Len(calls'[p]) = Len(calls[p]) + 1

LastLogged(p) == calls'[p][Len(calls'[p])]

\* C32: an invocation issues markAsSent and markAsFailed only for ids of the
\* batch it fetched; a step that changes a stored message is such a call,
\* markAsSent changing nothing but status, sent_at and last_error, and
\* markAsFailed nothing but status, retry_count, last_error and updated_at.
C32_UpdatesOwnBatchWithinFrame ==
  [][/\ \A p \in Procs :
          (LoggedCall(p) /\ LastLogged(p).op \in {"markAsSent", "markAsFailed"})
            => LastLogged(p).id \in BatchIds(p)
     /\ \A id \in Ids :
          queue'[id] # queue[id] =>
            \E p \in Procs :
              /\ LoggedCall(p)
              /\ LastLogged(p).id = id
              /\ id \in BatchIds(p)
              /\ \/ /\ LastLogged(p).op = "markAsSent"
                    /\ FrameOutside(id, {"status", "sent_at", "last_error"})
                 \/ /\ LastLogged(p).op = "markAsFailed"
                    /\ FrameOutside(id, {"status", "retry_count", "last_error",
                                         "updated_at"})]_vars

\* an invocation that fetched one message only has marked it sent after an
\* earlier failed attempt; the message outside its batch is as it was created
C32_Witness ==
  \E p \in Procs : \E id \in Ids : \E other \in Ids \ {id} :
    /\ pc[p] = "returned"
    /\ BatchIds(p) = {id}
    /\ Updated(p, "markAsSent", id)
    /\ queue[id].status = "sent"
    /\ queue[id].retry_count = 1
    /\ queue[id].updated_at = Stamp
    /\ queue[other] = NewItem(queue[other].max_retries)

StatsSettled ==
  /\ clientCall.name = "getQueueStats"
  /\ clientCall.pc = "done"

\* C33: a count request the store answers non-OK yields the count 0, not an
\* error: getQueueStats returns once its three requests were answered,
\* however many of them non-OK, and throws only the credential error (when
\* the credential is absent) or the failure of a fetch.
C33_RejectedCountIsZero ==
  StatsSettled =>
    /\ ~clientCall.outcome.threw =>
         /\ clientCall.waiting = {}
         /\ \A st \in clientCall.rejected : clientCall.outcome.value[st] = 0
    /\ clientCall.outcome.threw =>
         /\ clientCall.rejected \subseteq Statuses \ clientCall.waiting
         /\ clientCall.waiting # {}
         /\ IF CredentialAbsent
              THEN clientCall.outcome.error = CredentialError
              ELSE clientCall.outcome.error = "fetch failed"

\* all three count requests were answered non-OK while a message is pending,
\* and getQueueStats returned zeros
C33_Witness ==
  /\ StatsSettled
  /\ ~clientCall.outcome.threw
  /\ clientCall.rejected = Statuses
  /\ \A st \in Statuses : clientCall.outcome.value[st] = 0
  /\ TrueCount("pending") >= 1

\* the request being served carries 'Bearer <token>' with the token of jwt
\* mode, or with a token Clerk verifies in clerk mode
AcceptedToken ==
  /\ StartsWithBearer(http.header)
  /\ \/ AuthMethodOf(env) = "jwt" /\ TokenOf(http.header) = env.API_JWT_TOKEN
     \/ AuthMethodOf(env) = "clerk" /\ http.verified

\* clerk mode without CLERK_SECRET_KEY: verifyToken is not called
TokenUnchecked ==
  /\ StartsWithBearer(http.header)
  /\ AuthMethodOf(env) = "clerk"
  /\ env.CLERK_SECRET_KEY = Null

\* the handler of the request has called the processor or a client
HandlerActed ==
  /\ http.pc # "idle"
  /\ \/ pc["manual"] # "idle"
     \/ calls["manual"] # <<>>
     \/ clientCall.pc # "idle"
     \/ network # <<>>

PastAuth == http.pc \in {"handler", "responded"}

Refused ==
  /\ http.pc = "responded"
  /\ http.status = 401
  /\ ~HandlerActed

Fresh(p) ==
  /\ emails[p] = <<>>
  /\ i[p] = 0
  /\ result[p] = [processed |-> 0, failed |-> 0, errors |-> <<>>]
  /\ calls[p] = <<>>
  /\ thrown[p] = Null

\* C35: an error thrown by processPendingEmails is logged by the scheduled
\* handler, which resolves (it rejects only with getConfig's error, before a
\* processor exists), and is answered by POST /process with 500 and success:
\* false; the failed pass leaves nothing behind and the next trigger starts
\* with an empty result and a fetch.
C35_FailedPassHandledAndRetried ==
  /\ [](/\ (cron.pc = "done" /\ pc["scheduled"] = "thrown") =>
             /\ ~cron.outcome.threw
             /\ cron.outcome.value.error = thrown["scheduled"]
        /\ (cron.pc = "done" /\ cron.outcome.threw) =>
             /\ GetConfig(env).threw
             /\ pc["scheduled"] = "idle"
             /\ calls["scheduled"] = <<>>
        /\ (http.pc = "responded" /\ pc["manual"] = "thrown") =>
             /\ http.status = 500
             /\ http.body.success = FALSE
             /\ http.body.error = thrown["manual"]
        /\ \A p \in Procs : pc[p] = "getPendingEmails" => Fresh(p))
  /\ [][\A p \in Procs :
          /\ (pc[p] = "thrown" /\ pc'[p] # "thrown") =>
               (pc'[p] = "idle" /\ Fresh(p)')
          /\ (pc[p] = "idle" /\ pc'[p] # "idle") =>
               pc'[p] = "getPendingEmails"]_vars

\* the second pass, started by POST /process, threw and was answered 500
C35_Witness ==
  /\ invocations = 2
  /\ pc["manual"] = "thrown"
  /\ http.pc = "responded"
  /\ http.status = 500
  /\ http.body.success = FALSE

SecretNames == {"RESEND_API_KEY", "API_JWT_TOKEN", "CLERK_REFRESH_TOKEN", "API_KEY"}

\* the bindings that differ from e in the values of the secrets at most
SecretVariants(e) ==
  {[e EXCEPT !.RESEND_API_KEY = resend, !.API_JWT_TOKEN = jwt,
             !.CLERK_REFRESH_TOKEN = refresh, !.API_KEY = key] :
     resend \in SecretValues, jwt \in SecretValues,
     refresh \in SecretValues, key \in SecretValues}

\* the secrets bindings e hold
SecretsOf(e) == {e[name] : name \in SecretNames} \ {Null, ""}

ConfigAnswered == http.pc = "responded" /\ http.route = "GET /config"

\* the response holds no secret of the bindings
NoSecretInResponse ==
  http.status = 200 =>
    /\ DOMAIN http.body =
         {"apiBaseUrl", "fromEmail", "fromName", "pollIntervalMs", "maxBatchSize"}
    /\ \A f \in {"apiBaseUrl", "fromEmail", "fromName"} :
         http.body[f] \notin SecretsOf(env)

\* C36 as stated: the response of GET /config is the same for any bindings
\* that differ in the values of the secrets only, and holds none of them.
C36_Original ==
  ConfigAnswered =>
    /\ \A e2 \in SecretVariants(env) :
         ConfigRoute(e2) = [status |-> http.status, body |-> http.body]
    /\ NoSecretInResponse

\* C36: the response of GET /config holds no secret and depends on the
\* secrets only through whether the credential of the configured auth method
\* is set: it is the same for any bindings that differ in the values of the
\* secrets only and for which getConfig fails alike.
C36_ConfigHidesSecretValues ==
  ConfigAnswered =>
    /\ \A e2 \in SecretVariants(env) :
         GetConfig(e2).threw = GetConfig(env).threw =>
           ConfigRoute(e2) = [status |-> http.status, body |-> http.body]
    /\ NoSecretInResponse

\* every secret is set and the configuration was returned
C36_Witness ==
  /\ ConfigAnswered
  /\ http.status = 200
  /\ \A name \in SecretNames : env[name] = "<secret-a>"
  /\ http.body.apiBaseUrl = "https://api.example"
  /\ http.body.pollIntervalMs = [nan |-> FALSE, value |-> 250]

\* the towers of the list the ClubsClient returned that have an owner email
OwnedTowers ==
  {k \in DOMAIN http.locals.towers : http.locals.towers[k].ownerEmail \notin {Null, ""}}

SendAnswered ==
  /\ http.pc = "responded"
  /\ http.route = SendRoute
  /\ http.status = 200

\* response.failed, which the answer for no owner email at all leaves out
FailedReported == IF "failed" \in DOMAIN http.body THEN http.body.failed ELSE 0

\* C37: in a 200 response of the send route, queued + failed is the number of
\* lacking towers with an owner email and skipped the number of those
\* without; queueEmail was called exactly once for each tower with an email,
\* whatever the earlier calls answered.
C37_EveryTowerAccountedOnce ==
  SendAnswered =>
    /\ http.body.queued + FailedReported = Cardinality(OwnedTowers)
    /\ http.body.skipped = Len(http.locals.towers) - Cardinality(OwnedTowers)
    /\ Len(http.locals.settled) = Cardinality(OwnedTowers)
    /\ \A k \in OwnedTowers :
         Cardinality({n \in DOMAIN http.locals.settled :
                        http.locals.settled[n].tower = k}) = 1
    /\ http.body.queued =
         Cardinality({n \in DOMAIN http.locals.settled : http.locals.settled[n].ok})

\* queueEmail failed for the first tower and the later one was still queued;
\* a tower without owner email was skipped
C37_Witness ==
  /\ SendAnswered
  /\ Len(http.locals.towers) = 3
  /\ http.body.skipped = 1
  /\ http.body.failed = 1
  /\ http.body.queued = 1
  /\ ~http.locals.settled[1].ok
  /\ http.locals.settled[2].ok

ScheduleKeys == {1, 3, 7, 14, 20, 30}

\* the key nearest to target, the smaller one on a tie
NearestKey(target) ==
  CHOOSE k \in ScheduleKeys :
    \A j \in ScheduleKeys :
      \/ Abs(k - target) < Abs(j - target)
      \/ Abs(k - target) = Abs(j - target) /\ k <= j

\* max(floor(expirationDays * 0.67), 1)
RefreshTarget(days) == IF (67 * days) \div 100 < 1 THEN 1 ELSE (67 * days) \div 100

ScheduleAnswered ==
  /\ http.pc = "responded"
  /\ http.route = "GET /admin/refresh-schedule"
  /\ http.status = 200
  /\ ~http.body.expirationDays.nan

\* C38 as stated: the recommended cron is the entry of the key nearest to
\* max(floor(expirationDays * 0.67), 1), the smaller key on a tie, and for a
\* 30-day token it is "0 2 * * 0" with a refresh interval of 20 days.
C38_Original ==
  ScheduleAnswered =>
    /\ http.body.recommended =
         CronSchedules[NearestKey(RefreshTarget(http.body.expirationDays.value))]
    /\ http.body.expirationDays.value = 30 =>
         /\ http.body.recommended = "0 2 * * 0"
         /\ http.body.explanation.every = 20

====
